---- MODULE Spec2Model ----
(***************************************************************************)
(* Mean-reversion portfolio rebalancer: the covenant's invariant           *)
(* (validate), the off-chain planner (chooseNewTokenAmountMeanRevert) and  *)
(* the oracle price codec (priceCodec.js).                                 *)
(*                                                                         *)
(* Three specifications share the module:                                  *)
(*   Spec        the ledger validating submitted transitions               *)
(*   SpecPlanner the planner applied to bounded inputs                     *)
(*   SpecCodec   the codec applied to bounded field sets and payloads      *)
(***************************************************************************)
EXTENDS Integers, Sequences, FiniteSets, TLC

VARIABLES
    \* ---- ledger / validator
    posBase,      \* committed position: satoshis on the contract
    posTokens,    \* committed position: stablecoin FT amount on the contract
    lastTx,       \* the transition most recently handed to the validator
    lastPrice,    \* the oraclePriceRaw argument of that transition
    verdict,      \* the validator's answer for lastTx
    nftHolder,    \* committed: the address holding the authority NFT
    posOutpoint,  \* committed: which UTXO currently carries the position
    \* ---- planner
    plIn,         \* the planner's input (oldBch, oldTokens, oraclePriceRaw)
    plRes,        \* the planner's returned object
    plPc,         \* "idle" | "planned" | "submitted"
    plVerdict,    \* the validator's answer for the planner's proposal
    runs,         \* concurrent runs of runRebalanceWithOracleV3
    \* ---- codec
    cFields,      \* params handed to encodePriceMessage
    cBytes,       \* a payload (input of decode, or output of encode)
    cHex,         \* a hex string (input of decodeHex, or output of encodeHex)
    cRes,         \* outcome of the last codec call
    cPc           \* which codec calls have run

vars == << posBase, posTokens, lastTx, lastPrice, verdict, nftHolder,
           posOutpoint,
           plIn, plRes, plPc, plVerdict, runs,
           cFields, cBytes, cHex, cRes, cPc >>

ledgerVars  == << posBase, posTokens, lastTx, lastPrice, verdict, nftHolder,
                 posOutpoint >>
plannerVars == << plIn, plRes, plPc, plVerdict, runs >>
codecVars   == << cFields, cBytes, cHex, cRes, cPc >>

-----------------------------------------------------------------------------
(* Integer helpers *)

Abs(x) == IF x < 0 THEN -x ELSE x

\* BigInt division truncates toward zero (b > 0 everywhere it is used).
TruncDiv(a, b) == IF a >= 0 THEN a \div b ELSE -((-a) \div b)

Max(a, b) == IF a >= b THEN a ELSE b

-----------------------------------------------------------------------------
(* Valuation math *)

BCH_SCALE_DOWN == 10000
PRICE_SCALE == 100

\* A plausible slip: both divisions by BCH_SCALE_DOWN applied before the
\* multiplication by the price.
bchValueUsd_divFirst(bchSats, oraclePriceRaw) ==
    TruncDiv(TruncDiv(TruncDiv(bchSats, BCH_SCALE_DOWN), BCH_SCALE_DOWN)
               * oraclePriceRaw, PRICE_SCALE)

\* rebalanceWithOracleV3: bchValueUsd
bchValueUsd(bchSats, oraclePriceRaw) ==
    LET bchScaled == TruncDiv(bchSats, BCH_SCALE_DOWN)
    IN  TruncDiv(TruncDiv(bchScaled * oraclePriceRaw, BCH_SCALE_DOWN), PRICE_SCALE)

\* rebalanceWithOracleV3: imbalance
imbalance(bchSats, tokens, oraclePriceRaw) ==
    LET lhs == bchValueUsd(bchSats, oraclePriceRaw)
        rhs == tokens
        d   == lhs - rhs
    IN  IF d < 0 THEN -d ELSE d

\* A plausible slip: both divisions by BCH_SCALE_DOWN applied to the amount
\* before the multiplication by the price.
bchValueUsd_contract_divFirst(bchSats, oraclePriceRaw) ==
    TruncDiv(TruncDiv(TruncDiv(bchSats, BCH_SCALE_DOWN), BCH_SCALE_DOWN)
               * oraclePriceRaw, PRICE_SCALE)

\* tests/meanRevert.math.v3.test.js: bchValueUsd ("must match the contract")
bchValueUsd_contract(bchSats, oraclePriceRaw) ==
    LET bchScaled == TruncDiv(bchSats, BCH_SCALE_DOWN)
    IN  TruncDiv(TruncDiv(bchScaled * oraclePriceRaw, BCH_SCALE_DOWN), PRICE_SCALE)

\* A plausible slip: the sign of the difference is kept.
imbalance_signed(bchSats, tokens, oraclePriceRaw) ==
    bchValueUsd_contract(bchSats, oraclePriceRaw) - tokens

\* tests/meanRevert.math.v3.test.js: imbalance
imbalance_contract(bchSats, tokens, oraclePriceRaw) ==
    LET lhs == bchValueUsd_contract(bchSats, oraclePriceRaw)
        rhs == tokens
        d   == lhs - rhs
    IN  IF d < 0 THEN -d ELSE d

\* A plausible slip: the guard lets a zero price through.
priceRejected_zeroOk(oraclePriceRaw) == oraclePriceRaw < 0

\* tests/meanRevert.math.v3.test.js: isRebalanceAllowed, its price guard
priceRejected(oraclePriceRaw) == oraclePriceRaw <= 0

\* A plausible slip: an unchanged imbalance is refused.
isRebalanceAllowed_strict(bchIn, tokensIn, bchOut, tokensOut, oraclePriceRaw) ==
    IF priceRejected(oraclePriceRaw) THEN FALSE
    ELSE imbalance_contract(bchOut, tokensOut, oraclePriceRaw)
           < imbalance_contract(bchIn, tokensIn, oraclePriceRaw)

\* A plausible slip: the comparison of the two imbalances is turned round.
isRebalanceAllowed_reversed(bchIn, tokensIn, bchOut, tokensOut, oraclePriceRaw) ==
    IF priceRejected(oraclePriceRaw) THEN FALSE
    ELSE LET before == imbalance_contract(bchIn, tokensIn, oraclePriceRaw)
             after  == imbalance_contract(bchOut, tokensOut, oraclePriceRaw)
         IN  after >= before

\* tests/meanRevert.math.v3.test.js: isRebalanceAllowed
isRebalanceAllowed(bchIn, tokensIn, bchOut, tokensOut, oraclePriceRaw) ==
    IF priceRejected(oraclePriceRaw) THEN FALSE
    ELSE LET before == imbalance_contract(bchIn, tokensIn, oraclePriceRaw)
             after  == imbalance_contract(bchOut, tokensOut, oraclePriceRaw)
         IN  after <= before

-----------------------------------------------------------------------------
(* Transitions: inputs and outputs, each with a locking identity, a        *)
(* satoshi value and an optional token attachment (category "none" when    *)
(* the entry carries no token).                                            *)

FT_CATEGORY == "FT"
NFT_CATEGORY == "NFT"
FOREIGN_FT_CATEGORY == "FOREIGN"
REBALANCER_NFT_COMMITMENT == "nft0"
DUST_THRESHOLD == 546
\* satoshis of the BCH-only UTXO that pays the fee
FundingSats == 4000

Entry(lock, value, category, amount, commitment) ==
    [lock |-> lock, value |-> value, category |-> category,
     amount |-> amount, commitment |-> commitment]

BchOnly(lock, value) == Entry(lock, value, "none", 0, "none")
WithFt(lock, value, category, amount) == Entry(lock, value, category, amount, "none")
AuthorityNft(value) ==
    Entry("aliceToken", value, NFT_CATEGORY, 0, REBALANCER_NFT_COMMITMENT)

RECURSIVE SumSelfValue(_)
SumSelfValue(es) ==
    IF es = << >> THEN 0
    ELSE (IF Head(es).lock = "self" THEN Head(es).value ELSE 0)
         + SumSelfValue(Tail(es))

\* A plausible slip: any zero-amount token input counts as authority.
hasNftAuthority_anyNft(ins) ==
    \E k \in 1..Len(ins) : ins[k].category # "none" /\ ins[k].amount = 0

\* A plausible slip: a token amount on the input is tolerated.
hasNftAuthority_anyAmount(ins) ==
    \E k \in 1..Len(ins) :
        ins[k].commitment = REBALANCER_NFT_COMMITMENT

\* The authority scan over the inputs, as the contract makes it: token
\* amount 0 and the configured commitment. The constructor's
\* rebalancerNftCat is reserved and not compared.
hasNftAuthority(ins) ==
    \E k \in 1..Len(ins) :
        /\ ins[k].amount = 0
        /\ ins[k].commitment = REBALANCER_NFT_COMMITMENT

\* Validator step 3: base amounts of all self-owned inputs are summed.
oldBchOf(ins) == SumSelfValue(ins)

\* A plausible slip: the token amounts of all self-owned inputs are summed,
\* as the base amounts are.
RECURSIVE oldTokensOf_sum(_)
oldTokensOf_sum(ins) ==
    IF ins = << >> THEN 0
    ELSE (IF Head(ins).lock = "self" /\ Head(ins).category = FT_CATEGORY
          THEN Head(ins).amount ELSE 0)
         + oldTokensOf_sum(Tail(ins))

\* Validator step 3: the token amount of the first self-owned input only.
RECURSIVE oldTokensOf(_)
oldTokensOf(ins) ==
    IF ins = << >> THEN 0
    ELSE IF Head(ins).lock = "self"
         THEN (IF Head(ins).category = FT_CATEGORY THEN Head(ins).amount ELSE 0)
         ELSE oldTokensOf(Tail(ins))

\* Validator step 4: base amounts of all self-owned outputs are summed.
newBchOf(outs) == SumSelfValue(outs)

\* A plausible slip: the first self-owned output with any token amount is
\* taken, whatever its category.
RECURSIVE newTokensOf_anyCategory(_)
newTokensOf_anyCategory(outs) ==
    IF outs = << >> THEN 0
    ELSE IF /\ Head(outs).lock = "self"
            /\ Head(outs).amount > 0
         THEN Head(outs).amount
         ELSE newTokensOf_anyCategory(Tail(outs))

\* Validator step 4: the first self-owned output with a non-zero amount of
\* the stablecoin category; 0 when there is none.
RECURSIVE newTokensOf(_)
newTokensOf(outs) ==
    IF outs = << >> THEN 0
    ELSE IF /\ Head(outs).lock = "self"
            /\ Head(outs).category = FT_CATEGORY
            /\ Head(outs).amount > 0
         THEN Head(outs).amount
         ELSE newTokensOf(Tail(outs))

\* A plausible slip: the imbalance comparison made before the authority
\* scan.
validate_imbalanceFirst(tx, oraclePriceRaw) ==
    IF priceRejected(oraclePriceRaw) THEN "InvalidPrice"
    ELSE IF ~isRebalanceAllowed(oldBchOf(tx.ins), oldTokensOf(tx.ins),
                                newBchOf(tx.outs), newTokensOf(tx.outs),
                                oraclePriceRaw)
         THEN "ImbalanceWorsened"
    ELSE IF ~hasNftAuthority(tx.ins) THEN "NoAuthority"
    ELSE "Accept"

\* The covenant's rebalance(oraclePriceRaw): price check, authority scan,
\* aggregation, imbalance comparison, in this order.
validate(tx, oraclePriceRaw) ==
    IF priceRejected(oraclePriceRaw) THEN "InvalidPrice"
    ELSE IF ~hasNftAuthority(tx.ins) THEN "NoAuthority"
    ELSE IF isRebalanceAllowed(oldBchOf(tx.ins), oldTokensOf(tx.ins),
                               newBchOf(tx.outs), newTokensOf(tx.outs),
                               oraclePriceRaw)
         THEN "Accept"
         ELSE "ImbalanceWorsened"

-----------------------------------------------------------------------------
(* Rebalance planner *)

\* A plausible slip: the amount left on the contract and the amount
\* withdrawn change places in the returned object.
PlanResult_swapped(ret, newTokens, stepTokens, bchUsd, D_before, D_after) ==
    [ret |-> ret, newTokens |-> stepTokens, stepTokens |-> newTokens,
     bchUsd |-> bchUsd, D_before |-> D_before, D_after |-> D_after]

PlanResult(ret, newTokens, stepTokens, bchUsd, D_before, D_after) ==
    [ret |-> ret, newTokens |-> newTokens, stepTokens |-> stepTokens,
     bchUsd |-> bchUsd, D_before |-> D_before, D_after |-> D_after]

\* A plausible slip: the loop walks down one token at a time until the
\* candidate balances exactly.
RECURSIVE shrinkStep_linear(_, _, _, _, _, _)
shrinkStep_linear(step, oldBch, oldTokens, oraclePriceRaw, D_before, iterations) ==
    IF step > 1 /\ imbalance(oldBch, oldTokens - step, oraclePriceRaw) > 0
    THEN shrinkStep_linear(step - 1, oldBch, oldTokens,
                           oraclePriceRaw, D_before, iterations + 1)
    ELSE [step |-> step, iterations |-> iterations]

\* The while loop of chooseNewTokenAmountMeanRevert: the step it ends with
\* and the number of times its body ran.
RECURSIVE shrinkStep(_, _, _, _, _, _)
shrinkStep(step, oldBch, oldTokens, oraclePriceRaw, D_before, iterations) ==
    IF step > 1 /\ imbalance(oldBch, oldTokens - step, oraclePriceRaw) >= D_before
    THEN shrinkStep(Max(1, TruncDiv(step, 2)), oldBch, oldTokens,
                    oraclePriceRaw, D_before, iterations + 1)
    ELSE [step |-> step, iterations |-> iterations]

\* A plausible slip: the direction test reversed, so that a position short
\* of tokens enters the search and one with excess tokens is skipped.
chooseNewTokenAmountMeanRevert_flipped(oldBch, oldTokens, oraclePriceRaw) ==
    LET bchUsd   == bchValueUsd(oldBch, oraclePriceRaw)
        D_before == Abs(bchUsd - oldTokens)
        targetTokens == bchUsd
    IN  IF D_before = 0
        THEN PlanResult("balanced", oldTokens, 0, bchUsd, D_before, 0)
        ELSE IF targetTokens <= oldTokens
        THEN PlanResult("wrongDirection", oldTokens, 0, bchUsd, D_before, D_before)
        ELSE LET gap   == oldTokens - targetTokens
                 step0 == Max(1, TruncDiv(gap, 2))
                 step  == shrinkStep(step0, oldBch, oldTokens, oraclePriceRaw,
                                     D_before, 0).step
                 newTokens == oldTokens - step
                 D_after == imbalance(oldBch, newTokens, oraclePriceRaw)
             IN  IF D_after >= D_before
                 THEN PlanResult("noImprovingStep", oldTokens, 0, bchUsd,
                                 D_before, D_before)
                 ELSE PlanResult("found", newTokens, step, bchUsd,
                                 D_before, D_after)

\* A plausible slip: the whole gap is withdrawn at once.
chooseNewTokenAmountMeanRevert_fullStep(oldBch, oldTokens, oraclePriceRaw) ==
    LET bchUsd   == bchValueUsd(oldBch, oraclePriceRaw)
        D_before == Abs(bchUsd - oldTokens)
        targetTokens == bchUsd
    IN  IF D_before = 0
        THEN PlanResult("balanced", oldTokens, 0, bchUsd, D_before, 0)
        ELSE IF targetTokens >= oldTokens
        THEN PlanResult("wrongDirection", oldTokens, 0, bchUsd, D_before, D_before)
        ELSE LET gap   == oldTokens - targetTokens
                 step0 == Max(1, gap)
                 step  == shrinkStep(step0, oldBch, oldTokens, oraclePriceRaw,
                                     D_before, 0).step
                 newTokens == oldTokens - step
                 D_after == imbalance(oldBch, newTokens, oraclePriceRaw)
             IN  IF D_after >= D_before
                 THEN PlanResult("noImprovingStep", oldTokens, 0, bchUsd,
                                 D_before, D_before)
                 ELSE PlanResult("found", newTokens, step, bchUsd,
                                 D_before, D_after)

\* A plausible slip: the first step is one and a half times the gap.
chooseNewTokenAmountMeanRevert_overshoot(oldBch, oldTokens, oraclePriceRaw) ==
    LET bchUsd   == bchValueUsd(oldBch, oraclePriceRaw)
        D_before == Abs(bchUsd - oldTokens)
        targetTokens == bchUsd
    IN  IF D_before = 0
        THEN PlanResult("balanced", oldTokens, 0, bchUsd, D_before, 0)
        ELSE IF targetTokens >= oldTokens
        THEN PlanResult("wrongDirection", oldTokens, 0, bchUsd, D_before, D_before)
        ELSE LET gap   == oldTokens - targetTokens
                 step0 == Max(1, gap + TruncDiv(gap, 2))
                 step  == shrinkStep(step0, oldBch, oldTokens, oraclePriceRaw,
                                     D_before, 0).step
                 newTokens == oldTokens - step
                 D_after == imbalance(oldBch, newTokens, oraclePriceRaw)
             IN  IF D_after >= D_before
                 THEN PlanResult("noImprovingStep", oldTokens, 0, bchUsd,
                                 D_before, D_before)
                 ELSE PlanResult("found", newTokens, step, bchUsd,
                                 D_before, D_after)

\* A plausible slip: the step is not raised to 1 when the gap is 1.
chooseNewTokenAmountMeanRevert_noMinStep(oldBch, oldTokens, oraclePriceRaw) ==
    LET bchUsd   == bchValueUsd(oldBch, oraclePriceRaw)
        D_before == Abs(bchUsd - oldTokens)
        targetTokens == bchUsd
    IN  IF D_before = 0
        THEN PlanResult("balanced", oldTokens, 0, bchUsd, D_before, 0)
        ELSE IF targetTokens >= oldTokens
        THEN PlanResult("wrongDirection", oldTokens, 0, bchUsd, D_before, D_before)
        ELSE LET gap   == oldTokens - targetTokens
                 step0 == TruncDiv(gap, 2)
                 step  == shrinkStep(step0, oldBch, oldTokens, oraclePriceRaw,
                                     D_before, 0).step
                 newTokens == oldTokens - step
                 D_after == imbalance(oldBch, newTokens, oraclePriceRaw)
             IN  IF D_after >= D_before
                 THEN PlanResult("noImprovingStep", oldTokens, 0, bchUsd,
                                 D_before, D_before)
                 ELSE PlanResult("found", newTokens, step, bchUsd,
                                 D_before, D_after)

\* rebalanceWithOracleV3: chooseNewTokenAmountMeanRevert
chooseNewTokenAmountMeanRevert(oldBch, oldTokens, oraclePriceRaw) ==
    LET bchUsd   == bchValueUsd(oldBch, oraclePriceRaw)
        D_before == Abs(bchUsd - oldTokens)
        targetTokens == bchUsd
    IN  IF D_before = 0
        THEN PlanResult("balanced", oldTokens, 0, bchUsd, D_before, 0)
        ELSE IF targetTokens >= oldTokens
        THEN PlanResult("wrongDirection", oldTokens, 0, bchUsd, D_before, D_before)
        ELSE LET gap   == oldTokens - targetTokens
                 step0 == Max(1, TruncDiv(gap, 2))
                 step  == shrinkStep(step0, oldBch, oldTokens, oraclePriceRaw,
                                     D_before, 0).step
                 newTokens == oldTokens - step
                 D_after == imbalance(oldBch, newTokens, oraclePriceRaw)
             IN  IF D_after >= D_before
                 THEN PlanResult("noImprovingStep", oldTokens, 0, bchUsd,
                                 D_before, D_before)
                 ELSE PlanResult("found", newTokens, step, bchUsd,
                                 D_before, D_after)

\* A plausible slip: the early return tests tokenDelta < 0 only.
Found_always(res) == res.stepTokens >= 0

\* The caller's test for Found: runRebalanceWithOracleV3 returns without a
\* transaction when tokenDelta <= 0.
Found(res) == res.stepTokens > 0

\* A plausible slip: the withdrawn tokens get no output.
rebalanceTx_noWithdrawal(oldBch, oldTokens, newTokens, tokenDelta) ==
    LET newBch == oldBch
    IN  [ins  |-> << WithFt("self", oldBch, FT_CATEGORY, oldTokens),
                     AuthorityNft(DUST_THRESHOLD),
                     BchOnly("alice", FundingSats) >>,
         outs |-> << WithFt("self", newBch, FT_CATEGORY, newTokens),
                     AuthorityNft(DUST_THRESHOLD),
                     BchOnly("alice", DUST_THRESHOLD) >>]

\* A plausible slip: the fee is taken out of the position's BCH.
rebalanceTx_feeFromPosition(oldBch, oldTokens, newTokens, tokenDelta) ==
    LET newBch == oldBch - DUST_THRESHOLD
    IN  [ins  |-> << WithFt("self", oldBch, FT_CATEGORY, oldTokens),
                     AuthorityNft(DUST_THRESHOLD),
                     BchOnly("alice", FundingSats) >>,
         outs |-> << WithFt("self", newBch, FT_CATEGORY, newTokens),
                     WithFt("aliceToken", DUST_THRESHOLD, FT_CATEGORY, tokenDelta),
                     AuthorityNft(DUST_THRESHOLD),
                     BchOnly("alice", DUST_THRESHOLD) >>]

\* A plausible slip: the withdrawal output carries the new token amount.
rebalanceTx_withdrawsRest(oldBch, oldTokens, newTokens, tokenDelta) ==
    LET newBch == oldBch
    IN  [ins  |-> << WithFt("self", oldBch, FT_CATEGORY, oldTokens),
                     AuthorityNft(DUST_THRESHOLD),
                     BchOnly("alice", FundingSats) >>,
         outs |-> << WithFt("self", newBch, FT_CATEGORY, newTokens),
                     WithFt("aliceToken", DUST_THRESHOLD, FT_CATEGORY, newTokens),
                     AuthorityNft(DUST_THRESHOLD),
                     BchOnly("alice", DUST_THRESHOLD) >>]

\* A plausible slip: the authority NFT is spent and not recreated.
rebalanceTx_nftNotReturned(oldBch, oldTokens, newTokens, tokenDelta) ==
    LET newBch == oldBch
    IN  [ins  |-> << WithFt("self", oldBch, FT_CATEGORY, oldTokens),
                     AuthorityNft(DUST_THRESHOLD),
                     BchOnly("alice", FundingSats) >>,
         outs |-> << WithFt("self", newBch, FT_CATEGORY, newTokens),
                     WithFt("aliceToken", DUST_THRESHOLD, FT_CATEGORY, tokenDelta),
                     BchOnly("alice", DUST_THRESHOLD),
                     BchOnly("alice", DUST_THRESHOLD) >>]

\* runRebalanceWithOracleV3, pass 2: the transaction built from a proposal.
\* Inputs: portfolio UTXO, NFT authority UTXO, BCH funding UTXO.
\* Outputs: portfolio (same BCH, newTokens), withdrawal, NFT back, change.
rebalanceTx(oldBch, oldTokens, newTokens, tokenDelta) ==
    LET newBch == oldBch
    IN  [ins  |-> << WithFt("self", oldBch, FT_CATEGORY, oldTokens),
                     AuthorityNft(DUST_THRESHOLD),
                     BchOnly("alice", FundingSats) >>,
         outs |-> << WithFt("self", newBch, FT_CATEGORY, newTokens),
                     WithFt("aliceToken", DUST_THRESHOLD, FT_CATEGORY, tokenDelta),
                     AuthorityNft(DUST_THRESHOLD),
                     BchOnly("alice", DUST_THRESHOLD) >>]

-----------------------------------------------------------------------------
(* Bounded inputs *)

MaxTokens == 4

\* satoshi amounts: 1 BCH, 1.5 BCH
BchSamples == {100000000, 150000000}
\* oraclePriceRaw arguments; 100 values both amounts at 1, 399 values them
\* at 3 and 5
PriceSamples == {-1, 0, 100, 399}
TokenSamples == 0..MaxTokens

NoPlan == "n/a"
NoTx == "n/a"

codecIdle ==
    /\ cFields = "n/a" /\ cBytes = << >> /\ cHex = << >>
    /\ cRes = "n/a" /\ cPc = "off"
plannerIdle ==
    /\ plIn = NoPlan /\ plRes = NoPlan /\ plPc = "off" /\ plVerdict = NoPlan
    /\ runs = << >>
ledgerIdle ==
    /\ posBase = 0 /\ posTokens = 0 /\ lastTx = NoTx /\ lastPrice = 0
    /\ verdict = "off" /\ nftHolder = "aliceToken" /\ posOutpoint = 0

-----------------------------------------------------------------------------
(* The ledger: a transition that spends the committed position is handed   *)
(* to the covenant; it is committed only when the covenant accepts.        *)

\* What accompanies the position input: nothing, the authority NFT, or an
\* entry that differs from it in one attribute.
AuthVariants ==
    { << >>,
      << AuthorityNft(DUST_THRESHOLD) >>,
      << Entry("aliceToken", DUST_THRESHOLD, NFT_CATEGORY, 0, "other") >>,
      << Entry("aliceToken", DUST_THRESHOLD, NFT_CATEGORY, 1,
               REBALANCER_NFT_COMMITMENT) >>,
      << Entry("aliceToken", DUST_THRESHOLD, FOREIGN_FT_CATEGORY, 0,
               REBALANCER_NFT_COMMITMENT) >> }

PositionEntry(bch, tokens) ==
    IF tokens > 0 THEN WithFt("self", bch, FT_CATEGORY, tokens)
    ELSE BchOnly("self", bch)

\* The accompanying entries as held by, or sent to, the given address.
Relock(es, lock) ==
    [k \in 1..Len(es) |-> [es[k] EXCEPT !.lock = lock]]

\* addresses that can hold the authority NFT
NftHolders == {"aliceToken", "bobToken"}

\* A transition spending the position (pb, pt) and recreating it as
\* (nb, nt). Tokens that leave the position go to the treasury; tokens
\* that enter it come from a treasury input. The accompanying entries
\* are spent from their holder and recreated at nftTo.
TransitionOf(pb, pt, nb, nt, auth, nftFrom, nftTo) ==
    [ins  |-> << PositionEntry(pb, pt) >> \o Relock(auth, nftFrom)
              \o (IF nt > pt
                  THEN << WithFt("aliceToken", DUST_THRESHOLD, FT_CATEGORY, nt - pt) >>
                  ELSE << >>)
              \o << BchOnly("alice", FundingSats) >>,
     outs |-> << PositionEntry(nb, nt) >> \o Relock(auth, nftTo)
              \o (IF pt > nt
                  THEN << WithFt("aliceToken", DUST_THRESHOLD, FT_CATEGORY, pt - nt) >>
                  ELSE << >>)]

\* The ledger with a single submitter: no snapshot of the position is held
\* across steps, so the outpoint is left untracked here (see SpecRace).

\* A plausible slip: the base amount of a refused transition is kept.
Submit_partial(nb, nt, auth, nftTo, price) ==
    LET tx == TransitionOf(posBase, posTokens, nb, nt, auth, nftHolder, nftTo)
        v  == validate(tx, price)
    IN  /\ lastTx' = tx
        /\ lastPrice' = price
        /\ verdict' = v
        /\ posBase' = nb
        /\ posTokens' = IF v = "Accept" THEN nt ELSE posTokens
        /\ nftHolder' = IF v = "Accept" THEN nftTo ELSE nftHolder
        /\ UNCHANGED << posOutpoint, plannerVars, codecVars >>

Submit(nb, nt, auth, nftTo, price) ==
    LET tx == TransitionOf(posBase, posTokens, nb, nt, auth, nftHolder, nftTo)
        v  == validate(tx, price)
    IN  /\ lastTx' = tx
        /\ lastPrice' = price
        /\ verdict' = v
        /\ posBase' = IF v = "Accept" THEN nb ELSE posBase
        /\ posTokens' = IF v = "Accept" THEN nt ELSE posTokens
        /\ nftHolder' = IF v = "Accept" THEN nftTo ELSE nftHolder
        /\ UNCHANGED << posOutpoint, plannerVars, codecVars >>

Init ==
    /\ posBase \in BchSamples
    /\ posTokens \in TokenSamples
    /\ lastTx = NoTx
    /\ lastPrice = 0
    /\ verdict = "none"
    /\ nftHolder = "aliceToken"
    /\ posOutpoint = 0
    /\ plannerIdle
    /\ codecIdle

\* An accompanying entry other than the authority NFT returns to its
\* holder; the authority NFT may be sent to either address.
Next ==
    \E nb \in BchSamples, nt \in TokenSamples, auth \in AuthVariants,
       price \in PriceSamples :
        \E nftTo \in (IF hasNftAuthority(auth) THEN NftHolders ELSE {nftHolder}) :
            Submit(nb, nt, auth, nftTo, price)

Spec == Init /\ [][Next]_vars

-----------------------------------------------------------------------------
(* The planner applied to one input, and its proposal handed to the        *)
(* covenant with the authority token and the same price.                   *)

\* 0, just under one scaled unit, 1 BCH, 1.5 BCH
PlannerBchSamples == {0, 9999, 100000000, 150000000}
\* decoded prices are unsigned
PlannerPriceSamples == {0, 1, 100, 250, 10000, 20000}
\* the run refuses a portfolio without tokens
PlannerTokenSamples == (1..MaxTokens) \cup {100, 110, 120, 151, 200}

Plan ==
    /\ plPc = "idle"
    /\ plRes' = chooseNewTokenAmountMeanRevert(plIn.oldBch, plIn.oldTokens,
                                               plIn.oraclePriceRaw)
    /\ plPc' = "planned"
    /\ UNCHANGED << plIn, plVerdict, runs, ledgerVars, codecVars >>

\* tokenDelta <= 0: the run ends without a transaction.
SkipRun ==
    /\ plPc = "planned"
    /\ ~Found(plRes)
    /\ plPc' = "skipped"
    /\ UNCHANGED << plIn, plRes, plVerdict, runs, ledgerVars, codecVars >>

SubmitProposal ==
    /\ plPc = "planned"
    /\ Found(plRes)
    /\ IF ~(plRes.D_after < plRes.D_before)
       THEN \* "Sanity failure": the run throws before any transaction
            /\ plPc' = "failed"
            /\ UNCHANGED plVerdict
       ELSE /\ plVerdict' = validate(rebalanceTx(plIn.oldBch, plIn.oldTokens,
                                                plRes.newTokens, plRes.stepTokens),
                                    plIn.oraclePriceRaw)
            /\ plPc' = "submitted"
    /\ UNCHANGED << plIn, plRes, runs, ledgerVars, codecVars >>

\* the planner has not returned yet
NoPlanResult == PlanResult("none", 0, 0, 0, 0, 0)

InitPlanner ==
    /\ plIn \in [oldBch : PlannerBchSamples, oldTokens : PlannerTokenSamples,
                 oraclePriceRaw : PlannerPriceSamples]
    /\ plRes = NoPlanResult
    /\ plPc = "idle"
    /\ plVerdict = "none"
    /\ runs = << >>
    /\ ledgerIdle
    /\ codecIdle

NextPlanner == Plan \/ SkipRun \/ SubmitProposal

SpecPlanner == InitPlanner /\ [][NextPlanner]_vars

-----------------------------------------------------------------------------
(* Properties of the covenant (specification Spec) *)

Validated == verdict # "none"

\* The position as the transition spends and recreates it.
TxOldBase == lastTx.ins[1].value
TxOldTokens == lastTx.ins[1].amount
TxNewBase == lastTx.outs[1].value
TxNewTokens == lastTx.outs[1].amount

\* D = |valueOf(base, priceRaw) - tokens|, exact, no tolerance.
D_of(base, tokens, priceRaw) ==
    Abs(bchValueUsd_contract(base, priceRaw) - tokens)
TxD_before == D_of(TxOldBase, TxOldTokens, lastPrice)
TxD_after == D_of(TxNewBase, TxNewTokens, lastPrice)

\* Some input is the authority token: configured category, amount 0,
\* configured commitment.
TxHasAuthority ==
    \E k \in 1..Len(lastTx.ins) :
        /\ lastTx.ins[k].category = NFT_CATEGORY
        /\ lastTx.ins[k].amount = 0
        /\ lastTx.ins[k].commitment = REBALANCER_NFT_COMMITMENT

\* No input carries a token with amount 0 and the configured commitment.
TxLacksAuthority ==
    \A k \in 1..Len(lastTx.ins) :
        ~ /\ lastTx.ins[k].category # "none"
          /\ lastTx.ins[k].amount = 0
          /\ lastTx.ins[k].commitment = REBALANCER_NFT_COMMITMENT

\* C1: with priceRaw > 0 and the authority input present, the transition is
\* accepted exactly when D_after <= D_before (equality included), and every
\* D_after > D_before is rejected as ImbalanceWorsened.
C1_AcceptIffNotWorse ==
    (Validated /\ lastPrice > 0 /\ TxHasAuthority) =>
        /\ (verdict = "Accept") <=> (TxD_after <= TxD_before)
        /\ (TxD_after > TxD_before) => (verdict = "ImbalanceWorsened")

\* C1 witness: base and tokens both change, D stays equal and non-zero, and
\* the transition is accepted.
C1_Witness ==
    /\ Validated /\ lastPrice > 0 /\ TxHasAuthority
    /\ TxNewBase # TxOldBase /\ TxNewTokens # TxOldTokens
    /\ TxD_after = TxD_before /\ TxD_before > 0
    /\ verdict = "Accept"
    /\ posBase = TxNewBase /\ posTokens = TxNewTokens

\* C2: priceRaw <= 0 is rejected as InvalidPrice whatever else the
\* transition holds.
C2_PriceGuard ==
    (Validated /\ lastPrice <= 0) => verdict = "InvalidPrice"

\* C2 witness: a zero price, no authority input, an unchanged position.
C2_Witness ==
    /\ Validated /\ lastPrice = 0 /\ ~TxHasAuthority
    /\ TxNewBase = TxOldBase /\ TxNewTokens = TxOldTokens
    /\ verdict = "InvalidPrice"

\* C3 as stated: without an authority input the answer is NoAuthority
\* regardless of priceRaw.
C3_NoAuthorityAnyPrice ==
    (Validated /\ TxLacksAuthority) => verdict = "NoAuthority"

\* C3 as amended: without an authority input the transition is rejected,
\* as NoAuthority when priceRaw > 0 (whatever the balances are) and as
\* InvalidPrice when priceRaw <= 0.
C3_NoAuthorityRejected ==
    (Validated /\ TxLacksAuthority) =>
        /\ verdict = (IF lastPrice > 0 THEN "NoAuthority" ELSE "InvalidPrice")
        /\ posBase = TxOldBase /\ posTokens = TxOldTokens

\* C3 witness: priceRaw > 0, an NFT with the wrong commitment as the only
\* candidate, an imbalance that would improve, rejected as NoAuthority.
C3_Witness ==
    /\ Validated /\ lastPrice > 0 /\ TxLacksAuthority
    /\ Len(lastTx.ins) = 3 /\ lastTx.ins[2].category = NFT_CATEGORY
    /\ TxD_after < TxD_before
    /\ verdict = "NoAuthority"

-----------------------------------------------------------------------------
(* Properties of the planner (specification SpecPlanner) *)

Planned == plPc \in {"planned", "submitted", "skipped", "failed"}

\* C4 as stated: every proposal the planner returns is accepted by the
\* covenant when submitted with the authority token and the same priceRaw.
C4_ProposalAccepted ==
    (plPc = "submitted") => plVerdict = "Accept"

\* C5: a returned proposal strictly improves the covenant's D.
C5_StrictImprovement ==
    (Planned /\ Found(plRes)) =>
        imbalance_contract(plIn.oldBch, plIn.oldTokens - plRes.stepTokens,
                           plIn.oraclePriceRaw)
          < imbalance_contract(plIn.oldBch, plIn.oldTokens, plIn.oraclePriceRaw)

\* C5 witness: a proposal that withdraws more than one token and leaves a
\* non-zero imbalance.
C5_Witness ==
    /\ Planned /\ Found(plRes)
    /\ plRes.stepTokens > 1
    /\ plIn.oraclePriceRaw > 0
    /\ imbalance_contract(plIn.oldBch, plRes.newTokens, plIn.oraclePriceRaw) > 0

-----------------------------------------------------------------------------
(* Oracle price codec (priceCodec.js)                                      *)
(*                                                                         *)
(* A JS number is kept as sign, integer magnitude hi * 65536 + lo and an   *)
(* optional fractional half, so that values up to and beyond 2^32 - 1 are  *)
(* exact. A value that is not a number (undefined) has t = "undefined".    *)

HalfWord == 65536
ByteBase == 256
MESSAGE_LENGTH_BYTES == 16
DEFAULT_PRICE_SCALE == 100

JsNumber(neg, hi, lo, half) ==
    [t |-> "number", neg |-> neg, hi |-> hi, lo |-> lo, half |-> half]
Undefined ==
    [t |-> "undefined", neg |-> FALSE, hi |-> 0, lo |-> 0, half |-> FALSE]
\* the non-negative integer hi * 65536 + lo
U(hi, lo) == JsNumber(FALSE, hi, lo, FALSE)

IsNumber(x) == x.t = "number"
\* Number.isInteger
IsInteger(x) == IsNumber(x) /\ ~x.half
\* x < 0 (false for -0)
IsNegative(x) == IsNumber(x) /\ x.neg /\ (x.hi # 0 \/ x.lo # 0 \/ x.half)
\* 0 <= x <= 2^32 - 1 and x is an integer
IsUint32(x) ==
    /\ IsInteger(x)
    /\ x.hi < HalfWord /\ x.lo < HalfWord
    /\ (x.neg => (x.hi = 0 /\ x.lo = 0))

\* A plausible slip: x | 0 in place of x >>> 0; a result with the sign bit
\* set is negative and stays out of the unsigned range.
ToUint32_signed(x) ==
    LET h == x.hi % HalfWord
        l == x.lo
    IN  IF ~IsNumber(x) THEN U(0, 0)
        ELSE IF ~x.neg \/ (h = 0 /\ l = 0)
        THEN (IF h >= HalfWord \div 2
              THEN JsNumber(TRUE, (HalfWord - 1 - h + (IF l = 0 THEN 1 ELSE 0)),
                            (HalfWord - l) % HalfWord, FALSE)
              ELSE U(h, l))
        ELSE U((HalfWord - 1 - h + (IF l = 0 THEN 1 ELSE 0)) % HalfWord,
               (HalfWord - l) % HalfWord)

\* x >>> 0 : truncate toward zero, then reduce modulo 2^32
ToUint32(x) ==
    LET h == x.hi % HalfWord
        l == x.lo
    IN  IF ~IsNumber(x) THEN U(0, 0)
        ELSE IF ~x.neg \/ (h = 0 /\ l = 0) THEN U(h, l)
        ELSE U((HalfWord - 1 - h + (IF l = 0 THEN 1 ELSE 0)) % HalfWord,
               (HalfWord - l) % HalfWord)

\* Math.round(priceValue * priceScale), priceScale a small positive integer
MathRoundScaled(v, scale) ==
    LET halves  == (IF v.half THEN 1 ELSE 0) * scale
        loProd  == v.lo * scale + (halves \div 2)
        lo      == loProd % HalfWord
        hi      == v.hi * scale + (loProd \div HalfWord)
        tie     == halves % 2 = 1
        up      == tie /\ ~v.neg     \* ties round toward +infinity
        lo2     == IF up THEN (lo + 1) % HalfWord ELSE lo
        hi2     == IF up /\ lo + 1 = HalfWord THEN hi + 1 ELSE hi
    IN  JsNumber(v.neg, hi2, lo2, FALSE)

\* A plausible slip: the four bytes written most significant first.
writeUInt32BE(value) ==
    << value.hi \div ByteBase, value.hi % ByteBase,
       value.lo \div ByteBase, value.lo % ByteBase >>

\* buf.writeUInt32LE(value, offset): the four bytes it stores. A value
\* outside 0..2^32-1 makes Node throw; the result is then no byte sequence.
writeUInt32LE(value) ==
    IF ~IsUint32(value) THEN << -1 >>
    ELSE << value.lo % ByteBase, value.lo \div ByteBase,
            value.hi % ByteBase, value.hi \div ByteBase >>

\* A plausible slip: the four bytes read most significant first.
readUInt32BE(buf, offset) ==
    U(buf[offset + 1] * ByteBase + buf[offset + 2],
      buf[offset + 3] * ByteBase + buf[offset + 4])

\* buf.readUInt32LE(offset)
readUInt32LE(buf, offset) ==
    U(buf[offset + 3] + buf[offset + 4] * ByteBase,
      buf[offset + 1] + buf[offset + 2] * ByteBase)

Thrown(error) == [ok |-> FALSE, error |-> error]

\* A plausible slip: only a payload that is too short is refused.
decodePriceMessage_atLeast(messageBytes) ==
    LET buf == messageBytes
    IN  IF Len(buf) < MESSAGE_LENGTH_BYTES THEN Thrown("MalformedPayload")
        ELSE LET priceRaw == readUInt32LE(buf, 12)
             IN [ok |-> TRUE,
                 timestamp |-> readUInt32LE(buf, 0),
                 messageTimestamp |-> readUInt32LE(buf, 0),
                 messageSequence |-> readUInt32LE(buf, 4),
                 dataSequence |-> readUInt32LE(buf, 8),
                 priceRaw |-> priceRaw,
                 priceScale |-> DEFAULT_PRICE_SCALE,
                 priceValue |-> priceRaw]

\* priceCodec.js: decodePriceMessage
decodePriceMessage(messageBytes) ==
    LET buf == messageBytes
    IN  IF Len(buf) # MESSAGE_LENGTH_BYTES THEN Thrown("MalformedPayload")
        ELSE LET timestamp == readUInt32LE(buf, 0)
                 messageSequence == readUInt32LE(buf, 4)
                 dataSequence == readUInt32LE(buf, 8)
                 priceRaw == readUInt32LE(buf, 12)
             IN [ok |-> TRUE,
                 timestamp |-> timestamp,
                 messageTimestamp |-> timestamp,
                 messageSequence |-> messageSequence,
                 dataSequence |-> dataSequence,
                 priceRaw |-> priceRaw,
                 priceScale |-> DEFAULT_PRICE_SCALE,
                 priceValue |-> priceRaw]

\* Hex strings are sequences of one-character strings.
HexLower == << "0", "1", "2", "3", "4", "5", "6", "7",
               "8", "9", "a", "b", "c", "d", "e", "f" >>
HexUpper == << "0", "1", "2", "3", "4", "5", "6", "7",
               "8", "9", "A", "B", "C", "D", "E", "F" >>

IsHexDigit(c) == \E i \in 1..16 : HexLower[i] = c \/ HexUpper[i] = c
HexValue(c) == (CHOOSE i \in 1..16 : HexLower[i] = c \/ HexUpper[i] = c) - 1

\* Buffer.from(str, "hex"): pairs of hex digits, up to the first pair that
\* is not one; an odd trailing character is dropped.
RECURSIVE BufferFromHex(_)
BufferFromHex(str) ==
    IF Len(str) < 2 THEN << >>
    ELSE IF IsHexDigit(str[1]) /\ IsHexDigit(str[2])
    THEN << HexValue(str[1]) * 16 + HexValue(str[2]) >>
         \o BufferFromHex(SubSeq(str, 3, Len(str)))
    ELSE << >>

\* buf.toString("hex"): two lowercase digits per byte
RECURSIVE BufferToHex(_)
BufferToHex(buf) ==
    IF buf = << >> THEN << >>
    ELSE << HexLower[(Head(buf) \div 16) + 1], HexLower[(Head(buf) % 16) + 1] >>
         \o BufferToHex(Tail(buf))

\* priceCodec.js: decodePriceMessageHex
decodePriceMessageHex(messageHex) ==
    LET cleaned == IF Len(messageHex) >= 2 /\ messageHex[1] = "0"
                      /\ messageHex[2] = "x"
                   THEN SubSeq(messageHex, 3, Len(messageHex))
                   ELSE messageHex
        buf == BufferFromHex(cleaned)
    IN  decodePriceMessage(buf)

\* A plausible slip: the derived priceRaw is tested for its sign only.
encodePriceMessage_signOnly(params) ==
    IF \/ ~IsNumber(params.timestamp)
       \/ ~IsNumber(params.messageSequence)
       \/ ~IsNumber(params.dataSequence)
    THEN Thrown("InvalidField")
    ELSE IF ~IsNumber(params.priceRaw) /\ ~IsNumber(params.priceValue)
    THEN Thrown("InvalidField")
    ELSE LET priceScale == IF IsNumber(params.priceScale)
                           THEN params.priceScale.lo
                           ELSE DEFAULT_PRICE_SCALE
             raw == IF IsNumber(params.priceRaw) THEN params.priceRaw
                    ELSE MathRoundScaled(params.priceValue, priceScale)
         IN  IF IsNegative(raw)
             THEN Thrown("InvalidField")
             ELSE LET bytes == writeUInt32LE(ToUint32(params.timestamp))
                               \o writeUInt32LE(ToUint32(params.messageSequence))
                               \o writeUInt32LE(ToUint32(params.dataSequence))
                               \o writeUInt32LE(ToUint32(raw))
                  IN  IF \E i \in 1..Len(bytes) : bytes[i] < 0
                      THEN Thrown("RangeError")
                      ELSE [ok |-> TRUE, bytes |-> bytes]

\* priceCodec.js: encodePriceMessage
encodePriceMessage(params) ==
    IF \/ ~IsNumber(params.timestamp)
       \/ ~IsNumber(params.messageSequence)
       \/ ~IsNumber(params.dataSequence)
    THEN Thrown("InvalidField")
    ELSE IF ~IsNumber(params.priceRaw) /\ ~IsNumber(params.priceValue)
    THEN Thrown("InvalidField")
    ELSE LET priceScale == IF IsNumber(params.priceScale)
                           THEN params.priceScale.lo
                           ELSE DEFAULT_PRICE_SCALE
             raw == IF IsNumber(params.priceRaw) THEN params.priceRaw
                    ELSE MathRoundScaled(params.priceValue, priceScale)
         IN  IF ~IsInteger(raw) \/ IsNegative(raw)
             THEN Thrown("InvalidField")
             ELSE LET bytes == writeUInt32LE(ToUint32(params.timestamp))
                               \o writeUInt32LE(ToUint32(params.messageSequence))
                               \o writeUInt32LE(ToUint32(params.dataSequence))
                               \o writeUInt32LE(ToUint32(raw))
                  IN  IF \E i \in 1..Len(bytes) : bytes[i] < 0
                      THEN Thrown("RangeError")
                      ELSE [ok |-> TRUE, bytes |-> bytes]

\* priceCodec.js: encodePriceMessageHex
encodePriceMessageHex(params) ==
    LET r == encodePriceMessage(params)
    IN  IF r.ok THEN [ok |-> TRUE, hex |-> BufferToHex(r.bytes)] ELSE r

-----------------------------------------------------------------------------
(* The codec applied to bounded inputs (specification SpecCodec) *)

MaxExtraBytes == 2

\* timestamp / sequence / priceRaw arguments: 0, 255, 1763662906, 2^31,
\* 2^32 - 1, then 2^32 + 5, -1, 1.5 and undefined
NumSamples ==
    { U(0, 0), U(0, 255), U(26911, 23610), U(32768, 0), U(65535, 65535),
      U(65536, 5), JsNumber(TRUE, 0, 1, FALSE), JsNumber(FALSE, 0, 1, TRUE),
      Undefined }

\* priceValue arguments: 476.5, 0.5, -0.5, -2, 65535.5
PriceValueSamples ==
    { JsNumber(FALSE, 0, 476, TRUE), JsNumber(FALSE, 0, 0, TRUE),
      JsNumber(TRUE, 0, 0, TRUE), JsNumber(TRUE, 0, 2, FALSE),
      JsNumber(FALSE, 0, 65535, TRUE) }

Params(timestamp, messageSequence, dataSequence, priceRaw, priceValue, priceScale) ==
    [timestamp |-> timestamp, messageSequence |-> messageSequence,
     dataSequence |-> dataSequence, priceRaw |-> priceRaw,
     priceValue |-> priceValue, priceScale |-> priceScale]

NoParams == Params(Undefined, Undefined, Undefined, Undefined, Undefined, Undefined)

FieldInputs ==
    { Params(a, b, c, d, Undefined, Undefined) :
        a \in NumSamples, b \in NumSamples, c \in NumSamples, d \in NumSamples }
    \cup
    { Params(U(26911, 23610), U(21, 33543), U(21, 33517), Undefined, v, sc) :
        v \in PriceValueSamples \cup {Undefined}, sc \in {Undefined, U(0, 1)} }

\* 3a5c1f69 07831500 ed821500 06ba0000
KNOWN_MESSAGE ==
    << 58, 92, 31, 105, 7, 131, 21, 0, 237, 130, 21, 0, 6, 186, 0, 0 >>
KNOWN_MESSAGE_HEX ==
    << "3", "a", "5", "c", "1", "f", "6", "9", "0", "7", "8", "3", "1", "5",
       "0", "0", "e", "d", "8", "2", "1", "5", "0", "0", "0", "6", "b", "a",
       "0", "0", "0", "0" >>

PayloadWords ==
    { << 0, 0, 0, 0 >>, << 255, 255, 255, 255 >>, << 58, 92, 31, 105 >>,
      << 7, 131, 21, 0 >>, << 237, 130, 21, 0 >>, << 6, 186, 0, 0 >>,
      << 1, 2, 3, 128 >> }

FullPayloads ==
    { a \o b \o c \o d :
        a \in PayloadWords, b \in PayloadWords, c \in PayloadWords,
        d \in PayloadWords }

\* the known message cut short or padded: every length 0 .. 16 + MaxExtraBytes
LengthVariants ==
    { SubSeq(KNOWN_MESSAGE \o [i \in 1..MaxExtraBytes |-> 171], 1, n) :
        n \in 0..(MESSAGE_LENGTH_BYTES + MaxExtraBytes) }

PayloadInputs == FullPayloads \cup LengthVariants

ToUpperHex(str) == [i \in 1..Len(str) |-> HexUpper[HexValue(str[i]) + 1]]

\* a payload written as a hex string the way callers do: lowercase,
\* with a 0x prefix, uppercase
HexForms(payload) ==
    { BufferToHex(payload), << "0", "x" >> \o BufferToHex(payload),
      ToUpperHex(BufferToHex(payload)) }

FieldsOf(decoded) ==
    Params(decoded.timestamp, decoded.messageSequence, decoded.dataSequence,
           decoded.priceRaw, Undefined, Undefined)

Encode ==
    /\ cPc = "fields"
    /\ LET r == encodePriceMessage(cFields)
       IN  /\ cRes' = r
           /\ cBytes' = IF r.ok THEN r.bytes ELSE cBytes
    /\ cPc' = "encoded"
    /\ UNCHANGED << cFields, cHex, ledgerVars, plannerVars >>

EncodeHex ==
    /\ cPc = "fields"
    /\ LET r == encodePriceMessageHex(cFields)
       IN  /\ cRes' = r
           /\ cHex' = IF r.ok THEN r.hex ELSE cHex
    /\ cPc' = "encodedHex"
    /\ UNCHANGED << cFields, cBytes, ledgerVars, plannerVars >>

Decode ==
    /\ cPc = "bytes"
    /\ cRes' = decodePriceMessage(cBytes)
    /\ cPc' = "decoded"
    /\ UNCHANGED << cFields, cBytes, cHex, ledgerVars, plannerVars >>

DecodeHex ==
    /\ cPc = "hex"
    /\ cRes' = decodePriceMessageHex(cHex)
    /\ cPc' = "decodedHex"
    /\ UNCHANGED << cFields, cBytes, cHex, ledgerVars, plannerVars >>

\* encode, then decode what it produced
DecodeEncoded ==
    /\ cPc = "encoded" /\ cRes.ok
    /\ cRes' = decodePriceMessage(cBytes)
    /\ cPc' = "roundtrip"
    /\ UNCHANGED << cFields, cBytes, cHex, ledgerVars, plannerVars >>

DecodeEncodedHex ==
    /\ cPc = "encodedHex" /\ cRes.ok
    /\ cRes' = decodePriceMessageHex(cHex)
    /\ cPc' = "roundtripHex"
    /\ UNCHANGED << cFields, cBytes, cHex, ledgerVars, plannerVars >>

\* decode, then encode the fields it returned
ReEncode ==
    /\ cPc \in {"decoded", "decodedHex"} /\ cRes.ok
    /\ cFields' = FieldsOf(cRes)
    /\ cRes' = encodePriceMessage(FieldsOf(cRes))
    /\ cPc' = "reencoded"
    /\ UNCHANGED << cBytes, cHex, ledgerVars, plannerVars >>

ReEncodeHex ==
    /\ cPc \in {"decoded", "decodedHex"} /\ cRes.ok
    /\ cFields' = FieldsOf(cRes)
    /\ cRes' = encodePriceMessageHex(FieldsOf(cRes))
    /\ cPc' = "reencodedHex"
    /\ UNCHANGED << cBytes, cHex, ledgerVars, plannerVars >>

NotRun == [ok |-> FALSE, error |-> "none"]

InitCodec ==
    /\ \/ /\ cPc = "fields" /\ cFields \in FieldInputs
          /\ cBytes = << >> /\ cHex = << >>
       \/ /\ cPc = "bytes" /\ cBytes \in PayloadInputs
          /\ cFields = NoParams /\ cHex = << >>
       \/ /\ cPc = "hex" /\ cFields = NoParams
          /\ \E p \in LengthVariants \cup {KNOWN_MESSAGE} :
                /\ cBytes = p
                /\ cHex \in HexForms(p) \cup
                     (IF p = KNOWN_MESSAGE THEN {KNOWN_MESSAGE_HEX} ELSE {})
    /\ cRes = NotRun
    /\ ledgerIdle
    /\ plannerIdle

NextCodec ==
    \/ Encode \/ EncodeHex \/ Decode \/ DecodeHex
    \/ DecodeEncoded \/ DecodeEncodedHex \/ ReEncode \/ ReEncodeHex

SpecCodec == InitCodec /\ [][NextCodec]_vars

-----------------------------------------------------------------------------
(* Properties of the codec (specification SpecCodec) *)

\* the integer a non-negative JsNumber below 2^31 stands for
IntOf(x) == x.hi * HalfWord + x.lo

\* all four fields are integers in 0 .. 2^32 - 1, priceRaw given directly
FieldsInRange(f) ==
    /\ IsUint32(f.timestamp) /\ IsUint32(f.messageSequence)
    /\ IsUint32(f.dataSequence) /\ IsUint32(f.priceRaw)

\* C6: for fields that are integers in 0 .. 2^32 - 1, encode succeeds and
\* decode of its output returns the same four values.
C6_RoundTrip ==
    /\ (cPc \in {"encoded", "encodedHex"} /\ FieldsInRange(cFields)) => cRes.ok
    /\ (cPc \in {"roundtrip", "roundtripHex"} /\ FieldsInRange(cFields)) =>
          /\ cRes.ok
          /\ cRes.timestamp = cFields.timestamp
          /\ cRes.messageSequence = cFields.messageSequence
          /\ cRes.dataSequence = cFields.dataSequence
          /\ cRes.priceRaw = cFields.priceRaw

\* C6 witness: a round trip through bytes of 2^32 - 1, 255, 2^31 and
\* 1763662906.
C6_Witness ==
    /\ cPc = "roundtrip"
    /\ cFields.timestamp = U(65535, 65535)
    /\ cFields.messageSequence = U(0, 255)
    /\ cFields.dataSequence = U(32768, 0)
    /\ cFields.priceRaw = U(26911, 23610)
    /\ cRes.ok
    /\ cRes.timestamp = U(65535, 65535)
    /\ cBytes[1] = 255 /\ cBytes[5] = 255 /\ cBytes[6] = 0 /\ cBytes[12] = 128

\* C7: decode fails with MalformedPayload, returning no fields, exactly
\* when the payload is not 16 bytes long, also for a payload given in hex.
C7_LengthCheck ==
    (cPc \in {"decoded", "decodedHex"}) =>
        /\ cRes.ok <=> (Len(cBytes) = 16)
        /\ ~cRes.ok => cRes = [ok |-> FALSE, error |-> "MalformedPayload"]

\* C7 witness: a 17-byte payload given as a 0x-prefixed hex string is
\* refused.
C7_Witness ==
    /\ cPc = "decodedHex"
    /\ Len(cBytes) = 17
    /\ Len(cHex) = 36 /\ cHex[2] = "x"
    /\ cRes = [ok |-> FALSE, error |-> "MalformedPayload"]

\* C8 as stated: encode fails with InvalidField whenever timestamp,
\* messageSequence or dataSequence is not an unsigned 32-bit integer.
C8_RejectsNonUint32 ==
    (/\ cPc \in {"encoded", "encodedHex"}
     /\ \/ ~IsUint32(cFields.timestamp)
        \/ ~IsUint32(cFields.messageSequence)
        \/ ~IsUint32(cFields.dataSequence))
    => cRes = [ok |-> FALSE, error |-> "InvalidField"]

\* the little-endian value of the four bytes at offset, as halves
WordAt(bytes, offset) ==
    U(bytes[offset + 3] + 256 * bytes[offset + 4],
      bytes[offset + 1] + 256 * bytes[offset + 2])

\* C9: the fields are the unsigned little-endian words at offsets 0, 4, 8
\* and 12; the known payload decodes to 1763662906, 1409799, 1409773, 47622.
C9_LittleEndianLayout ==
    (cPc \in {"decoded", "decodedHex"} /\ cRes.ok) =>
        /\ cRes.timestamp = WordAt(cBytes, 0)
        /\ cRes.messageSequence = WordAt(cBytes, 4)
        /\ cRes.dataSequence = WordAt(cBytes, 8)
        /\ cRes.priceRaw = WordAt(cBytes, 12)
        /\ (cBytes = KNOWN_MESSAGE) =>
              /\ IntOf(cRes.timestamp) = 1763662906
              /\ IntOf(cRes.messageSequence) = 1409799
              /\ IntOf(cRes.dataSequence) = 1409773
              /\ IntOf(cRes.priceRaw) = 47622

\* C9 witness: the known payload, given as the hex string of the test, has
\* been decoded.
C9_Witness ==
    /\ cPc = "decodedHex"
    /\ cHex = KNOWN_MESSAGE_HEX
    /\ cRes.ok
    /\ IntOf(cRes.timestamp) = 1763662906
    /\ IntOf(cRes.priceRaw) = 47622

\* C10: encoding the fields decode returned for a 16-byte payload
\* reproduces the payload byte for byte; the hex form is its 32 lowercase
\* hex digits, without prefix.
C10_ReEncodeReproduces ==
    /\ (cPc = "reencoded") => (cRes.ok /\ cRes.bytes = cBytes)
    /\ (cPc = "reencodedHex") =>
          /\ cRes.ok
          /\ Len(cRes.hex) = 32
          /\ \A i \in 1..16 :
                /\ cRes.hex[2 * i - 1] = HexLower[(cBytes[i] \div 16) + 1]
                /\ cRes.hex[2 * i] = HexLower[(cBytes[i] % 16) + 1]

\* C10 witness: a payload whose words have the top bit set (ffffffff and
\* 01020380) has been decoded and encoded again.
C10_Witness ==
    /\ cPc = "reencoded"
    /\ SubSeq(cBytes, 1, 4) = << 255, 255, 255, 255 >>
    /\ SubSeq(cBytes, 13, 16) = << 1, 2, 3, 128 >>
    /\ cRes.ok /\ cRes.bytes = cBytes

-----------------------------------------------------------------------------
(* Valuation formula (specification SpecPlanner) *)

\* ((amount / 10000) * priceRaw) / 10000 / 100, truncating at each step
ValueMulBetween(amount, priceRaw) ==
    (((amount \div 10000) * priceRaw) \div 10000) \div 100

\* ((amount / 10000) / 10000) * priceRaw / 100, truncating at each step
ValueDivTwiceFirst(amount, priceRaw) ==
    ((((amount \div 10000) \div 10000) * priceRaw) \div 100)

\* The value the planner and the covenant both use is the given one: the
\* planner's bchUsd and D_before, the covenant's value of the same amount,
\* and the covenant's answer for the submitted proposal.
ValueUsedIs(v) ==
    /\ plRes.bchUsd = v
    /\ plRes.D_before = Abs(v - plIn.oldTokens)
    /\ bchValueUsd_contract(plIn.oldBch, plIn.oraclePriceRaw) = v
    /\ (plPc = "submitted") =>
          ((plVerdict = "Accept")
             <=> Abs(v - plRes.newTokens) <= Abs(v - plIn.oldTokens))

\* C11 as stated: for amount >= 0 and priceRaw > 0 the value used in D is
\* (amount / BASE_SCALE / BASE_SCALE) * priceRaw / PRICE_SCALE, both
\* divisions by BASE_SCALE applied before the multiplication.
C11_ValueDividesTwiceFirst ==
    (Planned /\ plIn.oraclePriceRaw > 0) =>
        ValueUsedIs(ValueDivTwiceFirst(plIn.oldBch, plIn.oraclePriceRaw))

\* C11 as amended: for amount >= 0 and priceRaw > 0 the value used in D by
\* the planner and by the covenant is
\* ((amount / BASE_SCALE) * priceRaw) / BASE_SCALE / PRICE_SCALE: one
\* division by BASE_SCALE before the multiplication, one after it.
C11_ValueMultipliesBetweenDivisions ==
    (Planned /\ plIn.oraclePriceRaw > 0) =>
        ValueUsedIs(ValueMulBetween(plIn.oldBch, plIn.oraclePriceRaw))

\* C11 witness: 1.5 BCH at priceRaw 10000 is valued at 150, where dividing
\* twice first would give 100.
C11_Witness ==
    /\ Planned /\ plIn.oraclePriceRaw = 10000 /\ plIn.oldBch = 150000000
    /\ plRes.bchUsd = 150
    /\ ValueDivTwiceFirst(plIn.oldBch, plIn.oraclePriceRaw) = 100

-----------------------------------------------------------------------------
(* Terminals of the planner (specification SpecPlanner) *)

\* valueOf(oldBase) of the planner's input
PlBchUsd == ValueMulBetween(plIn.oldBch, plIn.oraclePriceRaw)

\* C12: the terminal is decided by comparing bchUsd = valueOf(oldBase) with
\* oldTokens: NoActionNeeded exactly when they are equal,
\* SkippedWrongDirection exactly when bchUsd > oldTokens, the search only
\* when bchUsd < oldTokens; in the first two cases no tokens move.
C12_TerminalByDirection ==
    Planned =>
        /\ (plRes.ret = "balanced") <=> (PlBchUsd = plIn.oldTokens)
        /\ (plRes.ret = "wrongDirection") <=> (PlBchUsd > plIn.oldTokens)
        /\ (plRes.ret \in {"found", "noImprovingStep"})
              <=> (PlBchUsd < plIn.oldTokens)
        /\ (PlBchUsd >= plIn.oldTokens) =>
              /\ plRes.stepTokens = 0
              /\ plRes.newTokens = plIn.oldTokens
              /\ ~Found(plRes)

\* C12 witness: 1.5 BCH valued at 150 against 100 tokens: the planner skips
\* the run as wrong direction and moves nothing.
C12_Witness ==
    /\ plPc = "skipped"
    /\ PlBchUsd = 150 /\ plIn.oldTokens = 100
    /\ plRes.ret = "wrongDirection"
    /\ plRes.stepTokens = 0 /\ plRes.newTokens = 100

\* C13: when the planner returns Found, tokenDelta is an integer >= 1 and
\* the proposed token amount is oldTokens - tokenDelta; in every other
\* terminal tokenDelta is 0 and the proposed token amount is oldTokens.
C13_DeltaMatchesProposal ==
    Planned =>
        /\ plRes.stepTokens \in Nat
        /\ IF plRes.ret = "found"
           THEN /\ plRes.stepTokens >= 1
                /\ plRes.newTokens = plIn.oldTokens - plRes.stepTokens
           ELSE /\ plRes.stepTokens = 0
                /\ plRes.newTokens = plIn.oldTokens
        /\ Found(plRes) <=> (plRes.ret = "found")

\* C13 witness: 200 tokens against a value of 100: the planner withdraws
\* 50 and leaves 150.
C13_Witness ==
    /\ Planned /\ plRes.ret = "found"
    /\ plIn.oldTokens = 200 /\ PlBchUsd = 100
    /\ plRes.stepTokens = 50 /\ plRes.newTokens = 150

-----------------------------------------------------------------------------
(* The covenant applied to transitions of many shapes: several self-owned  *)
(* inputs and outputs, tokens of a foreign category, entries in different  *)
(* orders, tokens left without an output.                                  *)

RECURSIVE TokenTotal(_, _)
TokenTotal(es, category) ==
    IF es = << >> THEN 0
    ELSE (IF Head(es).category = category THEN Head(es).amount ELSE 0)
         + TokenTotal(Tail(es), category)

\* The ledger creates no fungible tokens: what leaves a transition in a
\* category entered it. Tokens left without an output are destroyed, which
\* the ledger permits.
LedgerAdmits(tx) ==
    \A category \in {FT_CATEGORY, FOREIGN_FT_CATEGORY} :
        TokenTotal(tx.outs, category) <= TokenTotal(tx.ins, category)

\* first self-owned input: the portfolio with 100 or 200 tokens, or BCH only
ShapeSelfFirst ==
    { WithFt("self", 100000000, FT_CATEGORY, 100),
      WithFt("self", 100000000, FT_CATEGORY, 200),
      BchOnly("self", 100000000) }
\* a further self-owned input
ShapeSelfMore ==
    { << >>,
      << WithFt("self", 50000000, FT_CATEGORY, 50) >>,
      << BchOnly("self", 50000000) >> }
\* an input that is not self-owned
ShapeOtherIn ==
    { << >>,
      << WithFt("aliceToken", 2000, FT_CATEGORY, 80) >>,
      << WithFt("aliceToken", 2000, FOREIGN_FT_CATEGORY, 200) >> }
ShapeAuth == { << >>, << AuthorityNft(DUST_THRESHOLD) >> }

\* the portfolio output
ShapeSelfOut ==
    { WithFt("self", nb, FT_CATEGORY, nt) :
          nb \in {100000000, 150000000}, nt \in {100, 120, 200} }
    \cup { BchOnly("self", nb) : nb \in {100000000, 150000000} }
\* a further self-owned output
ShapeSelfOutMore ==
    { << >>,
      << WithFt("self", 1000, FOREIGN_FT_CATEGORY, 200) >>,
      << WithFt("self", 1000, FT_CATEGORY, 30) >>,
      << BchOnly("self", 50000000) >> }
\* tokens leaving the position
ShapeWithdrawal ==
    { << >>, << WithFt("aliceToken", 1000, FT_CATEGORY, 80) >> }

ShapeIns ==
    { (IF otherFirst THEN other ELSE << >>) \o << first >> \o more \o auth
      \o (IF otherFirst THEN << >> ELSE other)
      \o << BchOnly("alice", FundingSats) >> :
          first \in ShapeSelfFirst, more \in ShapeSelfMore,
          other \in ShapeOtherIn, auth \in ShapeAuth, otherFirst \in BOOLEAN }

ShapeOuts ==
    { (IF moreFirst THEN more ELSE << >>) \o << main >>
      \o (IF moreFirst THEN << >> ELSE more) \o withdrawal :
          main \in ShapeSelfOut, more \in ShapeSelfOutMore,
          withdrawal \in ShapeWithdrawal, moreFirst \in BOOLEAN }

\* The transactions runRebalanceWithOracleV3 builds from its proposals.
PlannerBuilt ==
    { rebalanceTx(b, t, chooseNewTokenAmountMeanRevert(b, t, p).newTokens,
                  chooseNewTokenAmountMeanRevert(b, t, p).stepTokens) :
          b \in {100000000, 150000000}, t \in {110, 120, 151, 200},
          p \in {10000} }

TxShapes ==
    { tx \in [ins : ShapeIns, outs : ShapeOuts] : LedgerAdmits(tx) }
    \cup PlannerBuilt

ShapePrices == {0, 10000}

Validate ==
    /\ verdict = "none"
    /\ verdict' = validate(lastTx, lastPrice)
    /\ UNCHANGED << posBase, posTokens, lastTx, lastPrice, nftHolder,
                    posOutpoint, plannerVars, codecVars >>

InitValidate ==
    /\ lastTx \in TxShapes
    /\ lastPrice \in ShapePrices
    /\ verdict = "none"
    /\ posBase = 0 /\ posTokens = 0 /\ nftHolder = "aliceToken"
    /\ posOutpoint = 0
    /\ plannerIdle
    /\ codecIdle

NextValidate == Validate

SpecValidate == InitValidate /\ [][NextValidate]_vars

-----------------------------------------------------------------------------
(* Atomicity of the ledger (specification Spec) *)

\* C15: a rejection, for any of the three reasons, leaves the committed
\* base amount, token amount and authority holding exactly as they were;
\* the committed state changes only through an accepted transition, and
\* then to exactly the proposed new state.
C15_RejectionCommitsNothing ==
    [][ /\ verdict' \in {"Accept", "InvalidPrice", "NoAuthority",
                         "ImbalanceWorsened"}
        /\ (verdict' # "Accept") =>
              /\ posBase' = posBase
              /\ posTokens' = posTokens
              /\ nftHolder' = nftHolder
        /\ (verdict' = "Accept") =>
              /\ posBase' = lastTx'.outs[1].value
              /\ posTokens' = lastTx'.outs[1].amount
              /\ nftHolder' = lastTx'.outs[2].lock
        /\ lastTx'.ins[1].value = posBase
        /\ lastTx'.ins[1].amount = posTokens
      ]_vars

\* C15 witness: a transition with the authority that would have changed the
\* base amount, the token amount and the holder of the authority NFT is
\* rejected as ImbalanceWorsened, and all three are as before.
C15_Witness ==
    /\ verdict = "ImbalanceWorsened" /\ TxHasAuthority
    /\ TxNewBase # TxOldBase /\ TxNewTokens # TxOldTokens
    /\ lastTx.outs[2].lock # lastTx.ins[2].lock
    /\ posBase = TxOldBase /\ posTokens = TxOldTokens
    /\ nftHolder = lastTx.ins[2].lock

-----------------------------------------------------------------------------
(* Concurrent runs of runRebalanceWithOracleV3 against one ledger. A run    *)
(* reads the portfolio UTXO, fetches a price, plans, and sends a            *)
(* transaction spending the UTXO it read. The ledger refuses a transaction  *)
(* whose input is already spent.                                            *)

Runs == {1, 2}
RaceTokenSamples == {0, 100, 120, 151, 200}
RacePrices == {0, 5000, 10000}

RunStart ==
    [pc |-> "start", outpoint |-> 0, oldBch |-> 0, oldTokens |-> 0,
     price |-> 0, newTokens |-> 0, tokenDelta |-> 0, outcome |-> "none"]

\* Step 1: the contract's UTXOs are read; a portfolio without tokens ends
\* the run.
ReadPortfolio(r) ==
    /\ runs[r].pc = "start"
    /\ runs' = [runs EXCEPT ![r] =
                  IF posTokens <= 0
                  THEN [@ EXCEPT !.pc = "done", !.outcome = "noTokens",
                                 !.outpoint = posOutpoint,
                                 !.oldBch = posBase, !.oldTokens = posTokens]
                  ELSE [@ EXCEPT !.pc = "read", !.outpoint = posOutpoint,
                                 !.oldBch = posBase, !.oldTokens = posTokens]]
    /\ UNCHANGED << ledgerVars, plIn, plRes, plPc, plVerdict, codecVars >>

\* Step 2: the latest oracle price is fetched.
FetchPrice(r) ==
    /\ runs[r].pc = "read"
    /\ \E p \in RacePrices :
          runs' = [runs EXCEPT ![r] = [@ EXCEPT !.pc = "priced", !.price = p]]
    /\ UNCHANGED << ledgerVars, plIn, plRes, plPc, plVerdict, codecVars >>

\* Step 3: the planner is applied; tokenDelta <= 0 ends the run.
PlanRun(r) ==
    /\ runs[r].pc = "priced"
    /\ LET res == chooseNewTokenAmountMeanRevert(runs[r].oldBch,
                                                 runs[r].oldTokens,
                                                 runs[r].price)
       IN  runs' = [runs EXCEPT ![r] =
                      IF Found(res)
                      THEN [@ EXCEPT !.pc = "planned",
                                     !.newTokens = res.newTokens,
                                     !.tokenDelta = res.stepTokens]
                      ELSE [@ EXCEPT !.pc = "done", !.outcome = "skipped",
                                     !.newTokens = res.newTokens,
                                     !.tokenDelta = res.stepTokens]]
    /\ UNCHANGED << ledgerVars, plIn, plRes, plPc, plVerdict, codecVars >>

\* A plausible slip: the ledger does not look whether the input is unspent.
Send_noInputCheck(r) ==
    /\ runs[r].pc = "planned"
    /\ LET tx == rebalanceTx(runs[r].oldBch, runs[r].oldTokens,
                             runs[r].newTokens, runs[r].tokenDelta)
           v  == validate(tx, runs[r].price)
       IN  /\ runs' = [runs EXCEPT ![r] = [@ EXCEPT !.pc = "done", !.outcome = v]]
           /\ lastTx' = tx
           /\ lastPrice' = runs[r].price
           /\ verdict' = v
           /\ posBase' = IF v = "Accept" THEN newBchOf(tx.outs) ELSE posBase
           /\ posTokens' = IF v = "Accept" THEN newTokensOf(tx.outs) ELSE posTokens
           /\ posOutpoint' = IF v = "Accept" THEN posOutpoint + 1 ELSE posOutpoint
    /\ UNCHANGED << nftHolder, plIn, plRes, plPc, plVerdict, codecVars >>

\* Steps 5-6: the transaction is built on the UTXO read in step 1 and sent.
\* The ledger refuses it when that UTXO is spent; otherwise the covenant
\* decides, and an accepted transaction replaces the portfolio UTXO.
Send(r) ==
    /\ runs[r].pc = "planned"
    /\ LET tx == rebalanceTx(runs[r].oldBch, runs[r].oldTokens,
                             runs[r].newTokens, runs[r].tokenDelta)
           v  == IF runs[r].outpoint # posOutpoint THEN "staleInput"
                 ELSE validate(tx, runs[r].price)
       IN  /\ runs' = [runs EXCEPT ![r] = [@ EXCEPT !.pc = "done", !.outcome = v]]
           /\ lastTx' = tx
           /\ lastPrice' = runs[r].price
           /\ verdict' = v
           /\ posBase' = IF v = "Accept" THEN newBchOf(tx.outs) ELSE posBase
           /\ posTokens' = IF v = "Accept" THEN newTokensOf(tx.outs) ELSE posTokens
           /\ posOutpoint' = IF v = "Accept" THEN posOutpoint + 1 ELSE posOutpoint
    /\ UNCHANGED << nftHolder, plIn, plRes, plPc, plVerdict, codecVars >>

InitRace ==
    /\ posBase \in {100000000, 150000000}
    /\ posTokens \in RaceTokenSamples
    /\ posOutpoint = 0
    /\ nftHolder = "aliceToken"
    /\ lastTx = NoTx /\ lastPrice = 0 /\ verdict = "none"
    /\ runs = [r \in Runs |-> RunStart]
    /\ plIn = NoPlan /\ plRes = NoPlan /\ plPc = "off" /\ plVerdict = NoPlan
    /\ codecIdle

NextRace ==
    \E r \in Runs : ReadPortfolio(r) \/ FetchPrice(r) \/ PlanRun(r) \/ Send(r)

SpecRace == InitRace /\ [][NextRace]_vars

\* Both runs have sent a transaction built on the same portfolio UTXO.
Sent(r) == runs[r].pc = "done" /\ runs[r].outcome \notin {"noTokens", "skipped"}
BothSentOnSameState ==
    /\ Sent(1) /\ Sent(2)
    /\ runs[1].outpoint = runs[2].outpoint

Committed(r) == runs[r].outcome = "Accept"

-----------------------------------------------------------------------------
(* Termination of the planner. The planner is a synchronous function: once  *)
(* called it runs to its return, and the run then skips or sends.           *)

SpecPlannerLive == InitPlanner /\ [][NextPlanner]_vars /\ WF_vars(NextPlanner)

RECURSIVE Log2Floor(_)
Log2Floor(n) == IF n <= 1 THEN 0 ELSE 1 + Log2Floor(n \div 2)

\* The search loop as entered for the planner's input.
PlGap == plIn.oldTokens - PlBchUsd
PlLoop ==
    shrinkStep(Max(1, PlGap \div 2), plIn.oldBch, plIn.oldTokens,
               plIn.oraclePriceRaw, Abs(PlGap), 0)

\* C17: for every input the planner terminates with one of its terminal
\* results; the search loop ends with step >= 1 after at most log2(gap)
\* halvings (at most 32 for 32-bit values).
C17_PlannerTerminates ==
    /\ <>(Planned /\ plRes.ret \in {"balanced", "wrongDirection",
                                    "noImprovingStep", "found"})
    /\ []((Planned /\ PlGap > 0) =>
            /\ PlLoop.iterations <= Log2Floor(PlGap)
            /\ PlLoop.iterations <= 32
            /\ PlLoop.step >= 1
            /\ PlLoop.step <= Max(1, PlGap \div 2)
            /\ plRes.ret \in {"noImprovingStep", "found"})

\* C17 witness: the search entered with a gap of 100 and a first step of
\* 50, ended with Found.
C17_Witness ==
    /\ Planned /\ PlGap = 100
    /\ PlLoop.step = 50
    /\ plRes.ret = "found" /\ plRes.stepTokens = 50

-----------------------------------------------------------------------------
(* Order of the covenant's checks and its aggregation                      *)
(* (specification SpecValidate)                                            *)

\* D before and after, over the aggregated state of the whole transition
AggD_before ==
    D_of(oldBchOf(lastTx.ins), oldTokensOf(lastTx.ins), lastPrice)
AggD_after ==
    D_of(newBchOf(lastTx.outs), newTokensOf(lastTx.outs), lastPrice)

\* C18: the checks run in the order price, authority, imbalance and the
\* first failing one is reported: with priceRaw > 0 and no authority input
\* the result is NoAuthority even when the imbalance would also worsen, and
\* ImbalanceWorsened is returned only for transitions that pass both the
\* price check and the authority scan.
C18_FirstFailureReported ==
    Validated =>
        /\ (lastPrice <= 0) => verdict = "InvalidPrice"
        /\ (lastPrice > 0 /\ ~TxHasAuthority) => verdict = "NoAuthority"
        /\ (verdict = "ImbalanceWorsened") =>
              /\ lastPrice > 0 /\ TxHasAuthority
              /\ AggD_after > AggD_before
        /\ (lastPrice > 0 /\ TxHasAuthority /\ AggD_after > AggD_before)
              => verdict = "ImbalanceWorsened"

\* C18 witness: priceRaw > 0, no authority input and an imbalance that
\* would worsen: the answer is NoAuthority.
C18_Witness ==
    /\ Validated /\ lastPrice > 0 /\ ~TxHasAuthority
    /\ AggD_after > AggD_before
    /\ verdict = "NoAuthority"

\* Positions of the self-owned entries of a list.
SelfIdx(es) == {k \in 1..Len(es) : es[k].lock = "self"}
FirstIdx(S) == CHOOSE k \in S : \A j \in S : k <= j

RECURSIVE SumValueAt(_, _)
SumValueAt(es, S) ==
    IF S = {} THEN 0
    ELSE LET k == FirstIdx(S) IN es[k].value + SumValueAt(es, S \ {k})

\* The stablecoin amount an entry carries.
StableAmount(e) == IF e.category = FT_CATEGORY THEN e.amount ELSE 0

\* Old state as the claim describes it: base amounts of all self-owned
\* inputs, token amount of the first self-owned input.
InOldBase == SumValueAt(lastTx.ins, SelfIdx(lastTx.ins))
InOldTokens == StableAmount(lastTx.ins[FirstIdx(SelfIdx(lastTx.ins))])

StableSelfIdx(es) ==
    {k \in SelfIdx(es) : es[k].category = FT_CATEGORY /\ es[k].amount > 0}

\* New state as the claim describes it.
OutNewBase == SumValueAt(lastTx.outs, SelfIdx(lastTx.outs))
OutNewTokens ==
    IF StableSelfIdx(lastTx.outs) = {} THEN 0
    ELSE lastTx.outs[FirstIdx(StableSelfIdx(lastTx.outs))].amount

\* The same entries with the tokens of the foreign category taken off.
WithoutForeign(es) ==
    [k \in 1..Len(es) |->
        IF es[k].category = FOREIGN_FT_CATEGORY
        THEN BchOnly(es[k].lock, es[k].value) ELSE es[k]]

-----------------------------------------------------------------------------
(* The authority scan (specification Spec) *)

\* Some input has the given category, amount and commitment pattern.
TxCandidate(k) == lastTx.ins[k].commitment = REBALANCER_NFT_COMMITMENT

\* C21 as stated: an input is authority evidence only with the configured
\* category, amount 0 and the configured commitment; a transition whose
\* only candidate has another category, or a non-zero amount, is rejected
\* with NoAuthority.
C21_AuthorityNeedsCategory ==
    (Validated /\ lastPrice > 0 /\ ~TxHasAuthority) => verdict = "NoAuthority"

\* What the contract does: a candidate with a non-zero amount is refused,
\* a candidate of another category with amount 0 is taken as authority.
C21_AmountAndCommitmentOnly ==
    (Validated /\ lastPrice > 0) =>
        ((verdict = "NoAuthority")
           <=> ~\E k \in 1..Len(lastTx.ins) :
                   TxCandidate(k) /\ lastTx.ins[k].amount = 0)

\* C21 witness: the only candidate is an NFT of another category with
\* amount 0 and the configured commitment, and the transition is accepted.
C21_Witness ==
    /\ verdict = "Accept" /\ lastPrice > 0
    /\ ~TxHasAuthority
    /\ TxCandidate(2) /\ lastTx.ins[2].amount = 0
    /\ lastTx.ins[2].category = FOREIGN_FT_CATEGORY
    /\ TxNewTokens # TxOldTokens /\ posTokens = TxNewTokens

-----------------------------------------------------------------------------
(* The run around the planner (specification SpecPlanner) *)

\* C22: a transaction is built and sent only after the planner returned
\* tokenDelta > 0 and the check D_after < D_before passed; when the
\* position is balanced, would need tokens added, or no improving step
\* exists, the run ends without building or sending anything.
C22_SendOnlyAfterFound ==
    /\ (plPc = "submitted") =>
          /\ plRes.ret = "found" /\ plRes.stepTokens > 0
          /\ plRes.D_after < plRes.D_before
          /\ plVerdict # "none"
    /\ (Planned /\ plRes.ret \in {"balanced", "wrongDirection", "noImprovingStep"})
          => /\ plPc \in {"planned", "skipped"}
             /\ plVerdict = "none"
    /\ (plPc = "skipped") =>
          plRes.ret \in {"balanced", "wrongDirection", "noImprovingStep"}

\* C22 witness: 1 BCH at priceRaw 10000 against 100 tokens is balanced; the
\* run has ended and nothing was handed to the covenant.
C22_Witness ==
    /\ plPc = "skipped" /\ plRes.ret = "balanced"
    /\ plIn.oldBch = 100000000 /\ plIn.oraclePriceRaw = 10000
    /\ plIn.oldTokens = 100
    /\ plVerdict = "none"

-----------------------------------------------------------------------------
(* The transaction a run builds and sends (specification SpecRace: lastTx  *)
(* is the transaction of the latest Send)                                   *)

\* C23: in the transaction built by the rebalancer the position output
\* carries exactly the base amount of the position input, newBch = oldBch:
\* the rebalancer never moves base asset in or out of the position.
C23_BuiltKeepsBase ==
    Validated =>
        /\ lastTx.ins[1].lock = "self" /\ lastTx.outs[1].lock = "self"
        /\ lastTx.outs[1].value = lastTx.ins[1].value
        /\ newBchOf(lastTx.outs) = oldBchOf(lastTx.ins)
        /\ posBase = lastTx.ins[1].value

\* C23 witness: a committed rebalance of 1.5 BCH with 200 tokens; the token
\* amount went down, the base amount is the same.
C23_Witness ==
    /\ verdict = "Accept"
    /\ lastTx.ins[1].value = 150000000 /\ lastTx.ins[1].amount = 200
    /\ lastTx.outs[1].value = 150000000 /\ lastTx.outs[1].amount < 200
    /\ posBase = 150000000 /\ posTokens = lastTx.outs[1].amount

\* C24: in the built transaction the position output carries newTokens and
\* the treasury output carries tokenDelta, with newTokens + tokenDelta =
\* oldTokens: the stablecoin total of the outputs equals that of the
\* inputs, and nothing is burned.
C24_BuiltSplitsTokens ==
    Validated =>
        /\ \E r \in Runs :
              /\ runs[r].pc = "done"
              /\ lastTx.ins[1].amount = runs[r].oldTokens
              /\ lastTx.outs[1].amount = runs[r].newTokens
              /\ lastTx.outs[2].amount = runs[r].tokenDelta
        /\ lastTx.outs[1].lock = "self" /\ lastTx.outs[2].lock = "aliceToken"
        /\ lastTx.outs[1].category = FT_CATEGORY
        /\ lastTx.outs[2].category = FT_CATEGORY
        /\ lastTx.outs[2].amount > 0
        /\ lastTx.outs[1].amount + lastTx.outs[2].amount = lastTx.ins[1].amount
        /\ \A k \in 3..Len(lastTx.outs) : lastTx.outs[k].category # FT_CATEGORY
        /\ \A k \in 2..Len(lastTx.ins) : lastTx.ins[k].category # FT_CATEGORY

\* C24 witness: a committed rebalance of 151 tokens against a value of 100:
\* 25 tokens go to the treasury and 126 stay in the position.
C24_Witness ==
    /\ verdict = "Accept"
    /\ lastTx.ins[1].amount = 151
    /\ lastTx.outs[1].amount = 126
    /\ lastTx.outs[2].amount = 25
    /\ posTokens = 126

-----------------------------------------------------------------------------
(* Repeated runs of runRebalanceWithOracleV3 against one position at one    *)
(* price: each run reads the committed position, plans, and either skips    *)
(* or sends; an accepted transaction becomes the position the next run      *)
(* reads.                                                                   *)

RoundBchSamples == {100000000, 150000000}
\* 1 BCH is valued at 0, 1, 50 and 100; 1.5 BCH at 0, 1, 75 and 150
RoundPrices == {1, 100, 5000, 10000}
RoundTokenSamples == {MaxTokens, 40, 100, 120, 151, 200}

\* no transaction has been built yet
EmptyTx == [ins |-> << >>, outs |-> << >>]

\* The address that holds the authority NFT among the given entries.
NftLockIn(es) ==
    IF \E k \in 1..Len(es) :
          es[k].category = NFT_CATEGORY /\ es[k].amount = 0
          /\ es[k].commitment = REBALANCER_NFT_COMMITMENT
    THEN es[CHOOSE k \in 1..Len(es) :
               es[k].category = NFT_CATEGORY /\ es[k].amount = 0
               /\ es[k].commitment = REBALANCER_NFT_COMMITMENT].lock
    ELSE "nobody"

\* Steps 1-3 of a run: portfolio read, price fetched, planner applied. A
\* portfolio without tokens makes the run throw.
RoundPlan ==
    /\ plPc = "idle"
    /\ plIn' = [oldBch |-> posBase, oldTokens |-> posTokens,
                oraclePriceRaw |-> lastPrice]
    /\ IF posTokens <= 0
       THEN plPc' = "failed" /\ UNCHANGED plRes
       ELSE /\ plRes' = chooseNewTokenAmountMeanRevert(posBase, posTokens, lastPrice)
            /\ plPc' = "planned"
    /\ UNCHANGED << plVerdict, runs, ledgerVars, codecVars >>

\* tokenDelta <= 0: the run logs and returns; a later run starts afresh.
RoundSkip ==
    /\ plPc = "planned"
    /\ ~Found(plRes)
    /\ plPc' = "idle"
    /\ UNCHANGED << plIn, plRes, plVerdict, runs, ledgerVars, codecVars >>

\* A plausible slip: the accepted transaction is not taken as the new
\* position.
RoundSend_notCommitted ==
    /\ plPc = "planned"
    /\ Found(plRes)
    /\ LET tx == rebalanceTx(plIn.oldBch, plIn.oldTokens,
                             plRes.newTokens, plRes.stepTokens)
           v  == validate(tx, plIn.oraclePriceRaw)
       IN  /\ lastTx' = tx
           /\ verdict' = v
           /\ plVerdict' = v
           /\ plPc' = IF v = "Accept" THEN "idle" ELSE "failed"
           /\ UNCHANGED << posBase, posTokens, nftHolder, posOutpoint >>
    /\ UNCHANGED << plIn, plRes, lastPrice, runs, codecVars >>

\* Steps 4-6 of a run: the sanity check, the authority NFT looked up at
\* Alice's token address, the transaction built and sent. An accepted
\* transaction replaces the position and moves the NFT to the address named
\* on its output.
RoundSend ==
    /\ plPc = "planned"
    /\ Found(plRes)
    /\ IF ~(plRes.D_after < plRes.D_before) \/ nftHolder # "aliceToken"
       THEN /\ plPc' = "failed"
            /\ UNCHANGED << plVerdict, posBase, posTokens, lastTx, verdict,
                            nftHolder, posOutpoint >>
       ELSE LET tx == rebalanceTx(plIn.oldBch, plIn.oldTokens,
                                  plRes.newTokens, plRes.stepTokens)
                v  == validate(tx, plIn.oraclePriceRaw)
            IN  /\ lastTx' = tx
                /\ verdict' = v
                /\ plVerdict' = v
                /\ posBase' = IF v = "Accept" THEN newBchOf(tx.outs) ELSE posBase
                /\ posTokens' = IF v = "Accept" THEN newTokensOf(tx.outs)
                                ELSE posTokens
                /\ nftHolder' = IF v = "Accept" THEN NftLockIn(tx.outs)
                                ELSE nftHolder
                /\ posOutpoint' = IF v = "Accept" THEN posOutpoint + 1
                                  ELSE posOutpoint
                /\ plPc' = IF v = "Accept" THEN "idle" ELSE "failed"
    /\ UNCHANGED << plIn, plRes, lastPrice, runs, codecVars >>

InitRounds ==
    /\ posBase \in RoundBchSamples
    /\ posTokens \in RoundTokenSamples
    /\ lastPrice \in RoundPrices
    /\ posOutpoint = 0
    /\ nftHolder = "aliceToken"
    /\ lastTx = EmptyTx
    /\ verdict = "none"
    /\ plIn = [oldBch |-> posBase, oldTokens |-> posTokens,
               oraclePriceRaw |-> lastPrice]
    /\ plRes = NoPlanResult
    /\ plPc = "idle"
    /\ plVerdict = "none"
    /\ runs = << >>
    /\ codecIdle

NextRounds == RoundPlan \/ RoundSkip \/ RoundSend

SpecRounds == InitRounds /\ [][NextRounds]_vars

\* C25: the built transaction spends the authority token and recreates it
\* unchanged (same category, same commitment, amount 0) at the holder's
\* token address: after any number of successful rebalances the holder
\* still holds the authority token.
C25_AuthorityReturned ==
    /\ nftHolder = "aliceToken"
    /\ (posOutpoint > 0) =>
          /\ lastTx.ins[2] = AuthorityNft(DUST_THRESHOLD)
          /\ lastTx.outs[3] = lastTx.ins[2]
          /\ lastTx.outs[3].lock = "aliceToken"
          /\ lastTx.outs[3].category = NFT_CATEGORY
          /\ lastTx.outs[3].amount = 0
          /\ lastTx.outs[3].commitment = REBALANCER_NFT_COMMITMENT
          /\ \A k \in 1..Len(lastTx.outs) :
                (k # 3) => lastTx.outs[k].commitment = "none"

\* C25 witness: the third successful rebalance in a row has been committed
\* and the authority NFT is at Alice's token address.
C25_Witness ==
    /\ posOutpoint = 3 /\ verdict = "Accept"
    /\ hasNftAuthority(lastTx.ins)
    /\ NftLockIn(lastTx.outs) = "aliceToken"
    /\ nftHolder = "aliceToken"

-----------------------------------------------------------------------------
(* The planner's first candidate (specification SpecPlanner) *)

\* C26: whenever bchUsd < oldTokens the planner returns Found with
\* tokenDelta = max(1, floor((oldTokens - bchUsd) / 2)): the first candidate
\* always strictly improves, the body of the search loop never runs, and
\* NoImprovingStep is never returned.
C26_FirstCandidateFound ==
    Planned =>
        /\ plRes.ret # "noImprovingStep"
        /\ (plRes.bchUsd < plIn.oldTokens) =>
              /\ plRes.ret = "found" /\ Found(plRes)
              /\ plRes.stepTokens
                   = Max(1, (plIn.oldTokens - plRes.bchUsd) \div 2)
              /\ plRes.D_after < plRes.D_before
              /\ PlLoop.iterations = 0
              /\ PlLoop.step = plRes.stepTokens

\* C26 witness: a gap of 1 (2 tokens against a value of 1), where half the
\* gap is 0 and the step is raised to 1; the planner returns Found.
C26_Witness ==
    /\ Planned /\ plIn.oldTokens = 2 /\ plRes.bchUsd = 1
    /\ plRes.ret = "found" /\ plRes.stepTokens = 1
    /\ PlLoop.iterations = 0

\* C27: for oldBase >= 0 and priceRaw >= 0, a Found result satisfies
\* valueOf(oldBase) <= newTokens < oldTokens: the proposal never crosses
\* the target and never increases the token amount.
C27_ProposalBetween ==
    (Planned /\ Found(plRes) /\ plIn.oldBch >= 0 /\ plIn.oraclePriceRaw >= 0) =>
        /\ bchValueUsd(plIn.oldBch, plIn.oraclePriceRaw) <= plRes.newTokens
        /\ plRes.newTokens < plIn.oldTokens
        /\ bchValueUsd_contract(plIn.oldBch, plIn.oraclePriceRaw)
             <= plRes.newTokens

\* C27 witness: 151 tokens against a value of 150: the proposal is 150, the
\* target itself.
C27_Witness ==
    /\ Planned /\ Found(plRes)
    /\ plIn.oldTokens = 151 /\ plRes.bchUsd = 150
    /\ plRes.newTokens = 150

-----------------------------------------------------------------------------
(* Convergence of repeated rebalances (specification SpecRoundsLive). The   *)
(* script is run again after every run that returned or committed.          *)

SpecRoundsLive == InitRounds /\ [][NextRounds]_vars /\ WF_vars(NextRounds)

\* The committed position at the fixed price.
RoundValue == bchValueUsd(posBase, lastPrice)
RoundD == imbalance(posBase, posTokens, lastPrice)

\* The position holds more tokens than its value, and the value is not 0.
RoundExcessOverValue ==
    LET value == bchValueUsd(posBase, lastPrice)
    IN  posTokens > value /\ value > 0

\* The planner applied to the committed position answers NoActionNeeded.
RoundSettled ==
    LET res == chooseNewTokenAmountMeanRevert(posBase, posTokens, lastPrice)
    IN  RoundD = 0 /\ res.ret = "balanced" /\ ~Found(res)

\* C28: with base and priceRaw > 0 fixed and oldTokens > valueOf(oldBase),
\* each round of planning and committing makes D strictly smaller, after
\* finitely many rounds the planner returns NoActionNeeded with D = 0, and
\* from then on no further proposal is produced. (When the value is 0 the
\* last round leaves no tokens: the planner's answer for that position is
\* NoActionNeeded, and the script refuses the portfolio before asking.)
C28_RoundsConverge ==
    /\ [][ /\ posBase' = posBase /\ lastPrice' = lastPrice
           /\ (posOutpoint' # posOutpoint \/ posTokens' # posTokens) =>
                 /\ posOutpoint' = posOutpoint + 1
                 /\ RoundD' < RoundD
                 /\ posTokens' < posTokens
                 /\ posTokens' >= RoundValue
           /\ (RoundD = 0) => (posTokens' = posTokens /\ lastTx' = lastTx)
         ]_vars
    /\ [](plPc = "failed" => (posTokens = 0 /\ RoundD = 0))
    /\ RoundExcessOverValue
          ~> (plPc = "idle" /\ plRes.ret = "balanced" /\ RoundD = 0)
    /\ [](posTokens > RoundValue =>
            <>[]RoundSettled)

\* C28 witness: 200 tokens against 1 BCH valued at 100 reached balance in
\* eight committed rounds (150, 125, 113, 107, 104, 102, 101, 100) and the
\* next run returned balanced.
C28_Witness ==
    /\ posBase = 100000000 /\ lastPrice = 10000
    /\ posTokens = 100 /\ posOutpoint = 8
    /\ plRes.ret = "balanced" /\ plPc = "idle"
    /\ RoundD = 0

-----------------------------------------------------------------------------
(* The price field through the codec (specification SpecCodec) *)

\* encode was given number header fields and a price in one of its forms
PriceGiven ==
    /\ IsNumber(cFields.timestamp) /\ IsNumber(cFields.messageSequence)
    /\ IsNumber(cFields.dataSequence)
    /\ (IsNumber(cFields.priceRaw) \/ IsNumber(cFields.priceValue))

\* The priceRaw encode derives: priceRaw itself, else
\* Math.round(priceValue * priceScale).
DerivedRaw ==
    IF IsNumber(cFields.priceRaw) THEN cFields.priceRaw
    ELSE MathRoundScaled(cFields.priceValue,
                         IF IsNumber(cFields.priceScale)
                         THEN cFields.priceScale.lo ELSE DEFAULT_PRICE_SCALE)

\* a non-negative integer reduced modulo 2^32
Mod2Pow32(x) == U(x.hi % HalfWord, x.lo)

\* C29: encode fails when the derived priceRaw is negative or not an
\* integer; for every non-negative integer priceRaw it succeeds, and decode
\* reads back priceRaw mod 2^32: a priceRaw above 2^32 - 1 is wrapped, not
\* rejected.
C29_PriceWrapped ==
    /\ (cPc \in {"encoded", "encodedHex"} /\ PriceGiven) =>
          /\ (IsNegative(DerivedRaw) \/ ~IsInteger(DerivedRaw)) => ~cRes.ok
          /\ (IsInteger(DerivedRaw) /\ ~IsNegative(DerivedRaw)) => cRes.ok
    /\ (cPc \in {"roundtrip", "roundtripHex"}) =>
          /\ PriceGiven
          /\ IsInteger(DerivedRaw) /\ ~IsNegative(DerivedRaw)
          /\ cRes.ok
          /\ cRes.priceRaw = Mod2Pow32(DerivedRaw)
          /\ cRes.priceValue = cRes.priceRaw

\* C29 witness: priceRaw = 2^32 + 5 was encoded without an error and
\* decoded as 5.
C29_Witness ==
    /\ cPc = "roundtrip"
    /\ cFields.priceRaw = U(65536, 5)
    /\ cRes.ok /\ cRes.priceRaw = U(0, 5)

-----------------------------------------------------------------------------
(* Monotonic imbalance of the committed position (specification Spec) *)

\* C30: for a fixed priceRaw > 0, along accepted transitions the imbalance
\* D of the committed position never increases from one committed state to
\* the next, and a position with D = 0 moves only to states with D = 0.
C30_CommittedDNeverIncreases ==
    [][ /\ (verdict' = "Accept") =>
              /\ lastPrice' > 0
              /\ D_of(posBase', posTokens', lastPrice')
                   <= D_of(posBase, posTokens, lastPrice')
              /\ (D_of(posBase, posTokens, lastPrice') = 0) =>
                    D_of(posBase', posTokens', lastPrice') = 0
        /\ (verdict' # "Accept") =>
              (posBase' = posBase /\ posTokens' = posTokens)
      ]_vars

\* C30 witness: at priceRaw 100 a position of 1 BCH and 1 token (D = 0) was
\* replaced by 1.5 BCH and 1 token, which is valued at 1 as well (D = 0).
C30_Witness ==
    /\ verdict = "Accept" /\ lastPrice = 100
    /\ TxOldBase = 100000000 /\ TxOldTokens = 1
    /\ TxNewBase = 150000000 /\ TxNewTokens = 1
    /\ TxD_before = 0 /\ TxD_after = 0
    /\ posBase = 150000000 /\ posTokens = 1

====
